---- MODULE Spec2Model ----
(***************************************************************************)
(* Task lifecycle and scheduling of the DEMONS-SLAYER message runner.      *)
(*                                                                         *)
(* Part 1 models the queued variant, src/server.js lines 1-830: the task   *)
(* registry (tasks), the log map (logs), the FIFO queue (taskQueue), the   *)
(* counter activeTasks, the HTTP handlers start-task, stop-task and        *)
(* stop-all-tasks, the execution loop processTask, the admission loop      *)
(* processTaskQueue and the periodic cleanup.                              *)
(*                                                                         *)
(* JavaScript runs one callback at a time, so every action below is one    *)
(* run-to-completion segment of the code: a request handler, or the part   *)
(* of processTask between two awaits.  A task is a JavaScript object; the  *)
(* registry maps an identifier to a reference to it, and a running loop    *)
(* keeps its own reference.  The objects live in heap, and a handle is an  *)
(* index into heap.                                                        *)
(***************************************************************************)
EXTENDS Integers, Sequences, FiniteSets, TLC

\* ---------------------------------------------------------------- bounds
MaxTasks == 3      \* task objects ever created
NumIds == 3        \* distinct values generateTaskId can return
MaxCeiling == 2    \* values of MAX_CONCURRENT_TASKS explored: 1..MaxCeiling
MaxBatch == 2      \* largest batch_count submitted
MaxConv == 2       \* largest number of conversation ids in a submission
MaxMsg == 2        \* largest number of messages in a submission
MaxCookies == 2    \* largest number of cookie lines in a submission (part_002)
MaxSoloOps == 4    \* operations of a task submitted to an empty server
MaxOps == 3        \* operations of all tasks together, when there are several
MaxLiveTasks == 2  \* task objects ever created under SpecLive
MaxSweepTasks == 2 \* task objects ever created under SpecSweep
NumLogIds == 2     \* task identifiers that have a log array under SpecLogs
MaxOver == 2       \* entries appended to a log array beyond its cap
MaxShort == 2      \* entries appended to every log array but the longest
MaxTotal == 40     \* largest total of a task under SpecProgress
MaxWaiting == 2    \* longest queue under SpecUsers

\* ------------------------------------------------------ program constants
MAX_CONCURRENT_TASKS == 40
MAX_TASKS_PER_USER == 10
BATCH_COUNT_CAP == 100
LOG_CAP == 500     \* addLog keeps this many entries of a task
LOG_SLICE == 100   \* GET /api/logs/:taskId returns this many entries
PRECISION == 53    \* significant bits of a JavaScript number (IEEE 754 double)
PERCENT == 100     \* the factor of line 749

NoTask == 0        \* tasks.get(id) === undefined
NoReply == [op |-> "none", code |-> 0, count |-> 0]
NaN == -1000       \* parseInt of a non-numeric batch_count

Ids == 1..NumIds
Users == {"anonymous"}
\* A submitted batch_count, by what JavaScript makes of it: num is its value
\* as a number (what the operator * sees), int is parseInt of it.  2 and "2"
\* give num = int = 2, "abc" gives NaN twice, "2px" gives num = NaN and int = 2.
RawBatch == {[num |-> n, int |-> n] : n \in -1..MaxBatch}
              \cup {[num |-> NaN, int |-> NaN]}
              \cup {[num |-> NaN, int |-> n] : n \in 1..MaxBatch}

VARIABLES
  variant,      \* which of the repository's servers is running
  ceiling,      \* MAX_CONCURRENT_TASKS, fixed at start-up
  heap,         \* the task objects, in creation order
  tasks,        \* Map id -> task object (a handle, or NoTask)
  logs,         \* the keys of the logs Map
  taskQueue,    \* array of task identifiers
  activeTasks,  \* the counter activeTasks
  loop,         \* per task object: where its processTask call is suspended
  calls,         \* per task object: the delivery calls issued so far
  aged,         \* how many of the oldest task objects are older than 24 hours
  reply,        \* the response to the last request, where responses are modelled
  logEntries,   \* Part 6: the values of the logs Map, an array of entries per identifier
  census,       \* Part 8: the tasks of the registry counted by user and status
  xin,          \* Part 4: the list lengths the two expansions are given
  xidx,         \* Part 4: the loop of src/index.js
  xnest         \* Part 4: the nested loops of src/unnamed/part_002

qvars == <<variant, ceiling, heap, tasks, logs, taskQueue, activeTasks, loop, calls, aged>>
xvars == <<xin, xidx, xnest, logEntries, census>>
vars == <<qvars, xvars, reply>>

Handles == 1..Len(heap)

Min(a, b) == IF a < b THEN a ELSE b
Max(a, b) == IF a > b THEN a ELSE b

\* Math.round(x) for x = num / den >= 0: floor(x + 1/2)
Round(num, den) == (2 * num + den) \div (2 * den)

\* parseInt(batch_count) || 1, clamped to 1..100
BatchCountOf(raw) ==
  Min(Max(1, IF raw.int = NaN \/ raw.int = 0 THEN 1 ELSE raw.int), BATCH_COUNT_CAP)

\* addLog creates the log array of taskId when it is missing and appends to
\* it; only the key set of the logs Map is kept in this part of the model.
addLog(st, taskId) == [st EXCEPT !.logs = @ \cup {taskId}]

\* a task object no processTask call has been made for
NotStarted == [pc |-> "none", batch |-> 0, cookie |-> 0, conv |-> 0, msg |-> 0]

\* tasks.set(taskId, task)
tasksSet(st, taskId, h) == [st EXCEPT !.tasks[taskId] = h]

\* ------------------------------------------------ processTask, lines 718-790
RECURSIVE processTaskQueue(_), BatchHead(_, _, _), ConvHead(_, _, _, _),
          MsgHead(_, _, _, _, _)

\* Finalize with the status set to 'completed' whatever isStopped says
FinalizeAlwaysCompleted(st, h) ==
  LET t == st.heap[h]
      s1 == [st EXCEPT !.heap[h].status = "completed",
                       !.loop[h] = [pc |-> "done", batch |-> 0, cookie |-> 0, conv |-> 0, msg |-> 0]]
      s2 == addLog(s1, t.id)
      s3 == [s2 EXCEPT !.activeTasks = @ - 1]
  IN processTaskQueue(tasksSet(s3, t.id, h))

\* Finalize without the call of processTaskQueue at line 788
FinalizeKeepsQueue(st, h) ==
  LET t == st.heap[h]
      s1 == [st EXCEPT !.heap[h].status =
                          IF ~t.isStopped THEN "completed" ELSE "stopped",
                       !.loop[h] = [pc |-> "done", batch |-> 0, cookie |-> 0, conv |-> 0, msg |-> 0]]
      s2 == addLog(s1, t.id)
      s3 == [s2 EXCEPT !.activeTasks = @ - 1]
  IN tasksSet(s3, t.id, h)

\* lines 773-789: the status is settled, the slot is given back, the task is
\* written back under its identifier, and the queue is processed again
Finalize(st, h) ==
  LET t == st.heap[h]
      s1 == [st EXCEPT !.heap[h].status =
                          IF ~t.isStopped THEN "completed" ELSE "stopped",
                       !.loop[h] = [pc |-> "done", batch |-> 0, cookie |-> 0, conv |-> 0, msg |-> 0]]
      s2 == addLog(s1, t.id)
      s3 == [s2 EXCEPT !.activeTasks = @ - 1]
  IN processTaskQueue(tasksSet(s3, t.id, h))

\* AfterThrow with the slot given back in the catch block and again in the
\* finally block
AfterThrowReleasesTwice(st, h) ==
  LET t == st.heap[h]
      s1 == [st EXCEPT !.heap[h].status = "error",
                       !.loop[h] = [pc |-> "done", batch |-> 0, cookie |-> 0, conv |-> 0, msg |-> 0]]
      s2 == addLog(s1, t.id)
      s3 == [s2 EXCEPT !.activeTasks = @ - 2]
  IN processTaskQueue(tasksSet(s3, t.id, h))

\* lines 782-789: an error has been raised inside the try block; the status
\* becomes 'error', the slot is given back, the task is written back under
\* its identifier, and the queue is processed again
AfterThrow(st, h) ==
  LET t == st.heap[h]
      s1 == [st EXCEPT !.heap[h].status = "error",
                       !.loop[h] = [pc |-> "done", batch |-> 0, cookie |-> 0, conv |-> 0, msg |-> 0]]
      s2 == addLog(s1, t.id)
      s3 == [s2 EXCEPT !.activeTasks = @ - 1]
  IN processTaskQueue(tasksSet(s3, t.id, h))

\* lines 766-770, then the next iteration of the batch loop
AfterConversations(st, h, batch) ==
  LET t == st.heap[h]
  IN IF batch < t.batch_count - 1 /\ ~t.isStopped
     THEN [addLog(st, t.id) EXCEPT
             !.loop[h] = [pc |-> "waitBatch", batch |-> batch, cookie |-> 0, conv |-> 0,
                          msg |-> 0]]
     ELSE BatchHead(st, h, batch + 1)

\* BatchHead with the last batch left out
BatchHeadSkipsLast(st, h, batch) ==
  LET t == st.heap[h]
  IN IF batch < t.batch_count - 1
     THEN IF t.isStopped THEN Finalize(st, h)
          ELSE ConvHead(addLog(st, t.id), h, batch, 0)
     ELSE Finalize(st, h)

\* lines 729-732: the head of the batch loop
BatchHead(st, h, batch) ==
  LET t == st.heap[h]
  IN IF batch < t.batch_count
     THEN IF t.isStopped THEN Finalize(st, h)
          ELSE ConvHead(addLog(st, t.id), h, batch, 0)
     ELSE Finalize(st, h)

\* lines 734-735: the head of the conversation loop (conv counts from 0)
ConvHead(st, h, batch, conv) ==
  LET t == st.heap[h]
  IN IF conv < t.conversations
     THEN IF t.isStopped THEN AfterConversations(st, h, batch)
          ELSE MsgHead(st, h, batch, conv, 0)
     ELSE AfterConversations(st, h, batch)

\* MsgHead with the bound of the message loop off by one
MsgHeadOneMore(st, h, batch, conv, msg) ==
  LET t == st.heap[h]
  IN IF msg <= t.messages
     THEN IF t.isStopped THEN ConvHead(st, h, batch, conv + 1)
          ELSE [addLog(st, t.id) EXCEPT
                  !.loop[h] = [pc |-> "deliver", batch |-> batch, cookie |-> 0,
                               conv |-> conv, msg |-> msg],
                  !.calls[h] = Append(@, <<batch, conv, msg>>)]
     ELSE ConvHead(st, h, batch, conv + 1)

\* lines 737-746: the head of the message loop; the call of
\* sendFacebookMessage logs and suspends at its first await
MsgHead(st, h, batch, conv, msg) ==
  LET t == st.heap[h]
  IN IF msg < t.messages
     THEN IF t.isStopped THEN ConvHead(st, h, batch, conv + 1)
          ELSE [addLog(st, t.id) EXCEPT
                  !.loop[h] = [pc |-> "deliver", batch |-> batch, cookie |-> 0,
                              conv |-> conv, msg |-> msg],
                  !.calls[h] = Append(@, <<batch, conv, msg>>)]
     ELSE ConvHead(st, h, batch, conv + 1)

\* AfterDelivery with the delay started without a look at isStopped
AfterDeliveryWaitsAnyway(st, h, success) ==
  LET t == st.heap[h]
      completed == t.completed + 1
      t1 == [t EXCEPT !.completed = completed,
                      !.progress = Round(completed * 100, t.total),
                      !.success = IF success THEN @ + 1 ELSE @,
                      !.failed = IF success THEN @ ELSE @ + 1]
      s1 == tasksSet([st EXCEPT !.heap[h] = t1], t.id, h)
      l == st.loop[h]
  IN IF t1.completed < t1.total
     THEN [s1 EXCEPT !.loop[h].pc = "waitOp"]
     ELSE MsgHead(s1, h, l.batch, l.conv, l.msg + 1)

\* AfterDelivery with the count of a failed delivery forgotten
AfterDeliveryNoFailed(st, h, success) ==
  LET t == st.heap[h]
      completed == t.completed + 1
      t1 == [t EXCEPT !.completed = completed,
                      !.progress = Round(completed * 100, t.total),
                      !.success = IF success THEN @ + 1 ELSE @]
      s1 == tasksSet([st EXCEPT !.heap[h] = t1], t.id, h)
      l == st.loop[h]
  IN IF t1.completed < t1.total /\ ~t1.isStopped
     THEN [s1 EXCEPT !.loop[h].pc = "waitOp"]
     ELSE MsgHead(s1, h, l.batch, l.conv, l.msg + 1)

\* lines 748-762: sendFacebookMessage has returned success
AfterDelivery(st, h, success) ==
  LET t == st.heap[h]
      completed == t.completed + 1
      t1 == [t EXCEPT !.completed = completed,
                      !.progress = Round(completed * 100, t.total),
                      !.success = IF success THEN @ + 1 ELSE @,
                      !.failed = IF success THEN @ ELSE @ + 1]
      s1 == tasksSet([st EXCEPT !.heap[h] = t1], t.id, h)
      l == st.loop[h]
  IN IF t1.completed < t1.total /\ ~t1.isStopped
     THEN [s1 EXCEPT !.loop[h].pc = "waitOp"]
     ELSE MsgHead(s1, h, l.batch, l.conv, l.msg + 1)

\* lines 718-728: the task is marked running and the loop is entered
processTask(st, taskId) ==
  LET h == st.tasks[taskId]
  IN IF h = NoTask THEN st
     ELSE LET s1 == [st EXCEPT !.heap[h].status = "running",
                               !.activeTasks = @ + 1]
              s2 == addLog(tasksSet(s1, taskId, h), taskId)
          IN BatchHead(s2, h, 0)

\* processTaskQueue without the test of the status at line 798
processTaskQueueAnyStatus(st) ==
  IF st.activeTasks < st.ceiling /\ Len(st.taskQueue) > 0
  THEN LET taskId == Head(st.taskQueue)
           s1 == [st EXCEPT !.taskQueue = Tail(@)]
           h == s1.tasks[taskId]
       IN IF h # NoTask
          THEN processTaskQueue(processTask(s1, taskId))
          ELSE processTaskQueue(s1)
  ELSE st

\* ------------------------------------------- processTaskQueue, lines 793-804
processTaskQueue(st) ==
  IF st.activeTasks < st.ceiling /\ Len(st.taskQueue) > 0
  THEN LET taskId == Head(st.taskQueue)
           s1 == [st EXCEPT !.taskQueue = Tail(@)]
           h == s1.tasks[taskId]
       IN IF h # NoTask /\ s1.heap[h].status = "queued" /\ ~s1.heap[h].isStopped
          THEN processTaskQueue(processTask(s1, taskId))
          ELSE processTaskQueue(s1)
  ELSE st

\* the state the handlers and the loop read and write, as one record
State == [ceiling |-> ceiling, heap |-> heap, tasks |-> tasks, logs |-> logs,
          taskQueue |-> taskQueue, activeTasks |-> activeTasks, loop |-> loop,
          calls |-> calls]

\* st is the state after a request, r the response sent
Responds(st, r) ==
  /\ heap' = st.heap
  /\ tasks' = st.tasks
  /\ logs' = st.logs
  /\ taskQueue' = st.taskQueue
  /\ activeTasks' = st.activeTasks
  /\ loop' = st.loop
  /\ calls' = st.calls
  /\ reply' = r
  /\ UNCHANGED <<variant, ceiling, aged, xvars>>

\* st is the state after a callback, or after a request whose response is
\* left out
Becomes(st) == Responds(st, reply)

\* ------------------------------------------------------------- the handlers
\* generateTaskId, lines 72-75, draws a number at random and never looks at
\* the registry: it returns an identifier already given to a task, or a new
\* one (identifiers are only compared for equality, so one new identifier
\* stands for all of them)
generateTaskId ==
  LET given == {heap[h].id : h \in Handles}
      fresh == Ids \ given
  IN given \cup (IF fresh = {} THEN {} ELSE {CHOOSE i \in fresh : \A j \in fresh : i <= j})

\* the delivery calls the loop of task object t makes when it is not stopped
OpsOf(t) ==
  CASE variant = "queued" -> t.total
    [] variant = "immediate" ->
         IF t.batch_count = NaN THEN 0
         ELSE Max(t.batch_count, 0) * t.conversations * t.messages
    [] variant = "part002" ->
         Max(t.batchCount, 0) * t.cookies * t.conversations * t.messages

SumOps == LET RECURSIVE Sum(_)
              Sum(n) == IF n = 0 THEN 0 ELSE OpsOf(heap[n]) + Sum(n - 1)
          IN Sum(Len(heap))

\* the bound on the work submitted, for a new task object t: a task with no
\* operation at all is explored alone
WithinBounds(t) ==
  /\ Len(heap) < MaxTasks
  /\ IF heap = <<>> THEN OpsOf(t) <= MaxSoloOps
     ELSE /\ OpsOf(heap[1]) >= 1
          /\ OpsOf(t) >= 1
          /\ SumOps + OpsOf(t) <= MaxOps

\* lines 267-269: the running tasks of one user among the registry's values
userTaskCount(user) ==
  Cardinality({h \in Handles :
     /\ \E i \in Ids : tasks[i] = h
     /\ heap[h].user_id = user
     /\ heap[h].status = "running"})

\* lines 314-334: the task object of a submission
NewTask(taskId, batchCount, nconv, nmsg, user) ==
  [id |-> taskId, status |-> "queued", progress |-> 0,
   total |-> batchCount * nmsg * nconv,
   completed |-> 0, success |-> 0, failed |-> 0,
   messages |-> nmsg, conversations |-> nconv, batch_count |-> batchCount,
   isStopped |-> FALSE, user_id |-> user]

\* lines 310-347: the task is created, registered, logged and queued, and
\* the queue is processed
AfterStart(taskId, raw, nconv, nmsg, user) ==
  LET task == NewTask(taskId, BatchCountOf(raw), nconv, nmsg, user)
      h == Len(heap) + 1
      s1 == [State EXCEPT !.heap = Append(@, task),
                          !.loop = Append(@, NotStarted),
                          !.calls = Append(@, <<>>)]
      s2 == addLog([tasksSet(s1, taskId, h) EXCEPT !.logs = @ \cup {taskId}], taskId)
      s3 == [s2 EXCEPT !.taskQueue = Append(@, taskId)]
  IN processTaskQueue(s3)

\* POST /api/start-task, lines 233-369, for a submission that passes the
\* validation: taskId is what generateTaskId returns, raw the submitted
\* batch_count, nconv and nmsg the lengths of the parsed lists
StartTask(taskId, raw, nconv, nmsg, user) ==
  /\ variant = "queued"
  /\ userTaskCount(user) < MAX_TASKS_PER_USER
  /\ WithinBounds(NewTask(taskId, BatchCountOf(raw), nconv, nmsg, user))
  /\ Becomes(AfterStart(taskId, raw, nconv, nmsg, user))

\* taskQueue.indexOf(taskId), then splice(queueIndex, 1)
RemoveFirst(q, x) ==
  IF \E i \in 1..Len(q) : q[i] = x
  THEN LET k == CHOOSE i \in 1..Len(q) : q[i] = x /\ \A j \in 1..(i - 1) : q[j] # x
       IN SubSeq(q, 1, k - 1) \o SubSeq(q, k + 1, Len(q))
  ELSE q

\* AfterStop with the whole queue emptied, as stop-all does at line 481
AfterStopEmptiesQueue(taskId) ==
  LET h == tasks[taskId]
      s1 == [State EXCEPT !.heap[h].isStopped = TRUE,
                          !.heap[h].status = "stopped"]
      s2 == [tasksSet(s1, taskId, h) EXCEPT !.taskQueue = <<>>]
  IN addLog(s2, taskId)

\* lines 448-458: the task is marked, taken out of the queue and logged
AfterStop(taskId) ==
  LET h == tasks[taskId]
      s1 == [State EXCEPT !.heap[h].isStopped = TRUE,
                          !.heap[h].status = "stopped"]
      s2 == [tasksSet(s1, taskId, h) EXCEPT !.taskQueue = RemoveFirst(@, taskId)]
  IN addLog(s2, taskId)

\* POST /api/stop-task/:taskId, lines 437-464, for a task of the registry
StopTask(taskId) ==
  /\ variant = "queued"
  /\ tasks[taskId] # NoTask
  /\ Becomes(AfterStop(taskId))

\* StopAllHit with the queued tasks left out
StopAllHitRunningOnly ==
  {i \in Ids : tasks[i] # NoTask /\ heap[tasks[i]].status = "running"}

\* line 470: the registry entries the loop of stop-all acts on
StopAllHit ==
  {i \in Ids : tasks[i] # NoTask /\ heap[tasks[i]].status \in {"running", "queued"}}

\* lines 467-474: one is added for every entry acted on
stoppedCount == Cardinality(StopAllHit)

\* lines 469-482
AfterStopAll ==
  [State EXCEPT
     !.heap = [h \in Handles |->
                 IF \E i \in StopAllHit : tasks[i] = h
                 THEN [heap[h] EXCEPT !.isStopped = TRUE, !.status = "stopped"]
                 ELSE heap[h]],
     !.logs = @ \cup StopAllHit,
     !.taskQueue = <<>>,
     !.activeTasks = 0]

\* POST /api/stop-all-tasks, lines 466-489
StopAllTasks ==
  /\ variant = "queued"
  /\ Becomes(AfterStopAll)

\* ------------------------------------- the handlers with their responses
\* the response of a handler: the operation, the HTTP status, and the
\* stoppedCount of stop-all (0 elsewhere)
Response(op, code, count) == [op |-> op, code |-> code, count |-> count]

\* StartTaskRequest with only the cookies validated
StartTaskRequestCookiesOnly(taskId, raw, ncookie, nconv, nmsg, user) ==
  /\ variant = "queued"
  /\ IF ncookie = 0
     THEN Responds(State, Response("start", 400, 0))
     ELSE IF userTaskCount(user) >= MAX_TASKS_PER_USER
     THEN Responds(State, Response("start", 429, 0))
     ELSE /\ WithinBounds(NewTask(taskId, BatchCountOf(raw), nconv, nmsg, user))
          /\ Responds(AfterStart(taskId, raw, nconv, nmsg, user),
                      Response("start", 200, 0))

\* POST /api/start-task, lines 233-369: ncookie, nconv and nmsg are the
\* lengths of the parsed lists (an empty or blank field parses to an empty
\* list); 400 at lines 246-265 and 289-308, 429 at lines 271-276
StartTaskRequest(taskId, raw, ncookie, nconv, nmsg, user) ==
  /\ variant = "queued"
  /\ IF ncookie = 0 \/ nmsg = 0 \/ nconv = 0
     THEN Responds(State, Response("start", 400, 0))
     ELSE IF userTaskCount(user) >= MAX_TASKS_PER_USER
     THEN Responds(State, Response("start", 429, 0))
     ELSE /\ WithinBounds(NewTask(taskId, BatchCountOf(raw), nconv, nmsg, user))
          /\ Responds(AfterStart(taskId, raw, nconv, nmsg, user),
                      Response("start", 200, 0))

\* GET /api/task/:taskId, lines 371-397 (of the 200 response only the status
\* code is kept)
GetTaskRequest(taskId) ==
  /\ variant = "queued"
  /\ IF tasks[taskId] = NoTask
     THEN Responds(State, Response("task", 404, 0))
     ELSE Responds(State, Response("task", 200, 0))

\* StopTaskRequest with the log entry written before the look-up
StopTaskRequestLogsFirst(taskId) ==
  /\ variant = "queued"
  /\ IF tasks[taskId] = NoTask
     THEN Responds(addLog(State, taskId), Response("stop", 404, 0))
     ELSE Responds(AfterStop(taskId), Response("stop", 200, 0))

\* POST /api/stop-task/:taskId, lines 437-464
StopTaskRequest(taskId) ==
  /\ variant = "queued"
  /\ IF tasks[taskId] = NoTask
     THEN Responds(State, Response("stop", 404, 0))
     ELSE Responds(AfterStop(taskId), Response("stop", 200, 0))

\* POST /api/stop-all-tasks, lines 466-489
StopAllRequest ==
  /\ variant = "queued"
  /\ Responds(AfterStopAll, Response("stop-all", 200, stoppedCount))

\* ------------------------------------------------ the steps of a running loop
\* sendFacebookMessage returns to the loop of task object h
DeliveryReturns(h, success) ==
  /\ variant = "queued"
  /\ loop[h].pc = "deliver"
  /\ Becomes(AfterDelivery(State, h, success))

\* the wait of line 761 is over
OpDelayElapses(h) ==
  /\ variant = "queued"
  /\ loop[h].pc = "waitOp"
  /\ Becomes(MsgHead(State, h, loop[h].batch, loop[h].conv, loop[h].msg + 1))

\* the wait of line 769 is over
BatchDelayElapses(h) ==
  /\ variant = "queued"
  /\ loop[h].pc = "waitBatch"
  /\ Becomes(BatchHead(State, h, loop[h].batch + 1))

\* The awaited call of line 741 rejects, or a statement of the loop raises
\* an error when the loop is resumed.  sendFacebookMessage catches what its
\* body raises (lines 702-714) and nothing else in lines 729-771 raises an
\* error on the values the handlers store, so this step is no part of Next;
\* it is the case the catch block of line 782 is written for.
LoopThrows(h) ==
  /\ variant = "queued"
  /\ loop[h].pc \in {"deliver", "waitOp", "waitBatch"}
  /\ Becomes(AfterThrow(State, h))

\* ------------------------------------------------- cleanup, lines 807-822
\* startTime grows with the order of creation, so the tasks whose startTime
\* is before the cutoff are the `aged' oldest task objects
Expired(h) == h <= aged /\ heap[h].status # "running"

Cleanup ==
  /\ variant = "queued"
  /\ LET gone == {i \in Ids : tasks[i] # NoTask /\ Expired(tasks[i])}
     IN /\ gone # {}
        /\ tasks' = [i \in Ids |-> IF i \in gone THEN NoTask ELSE tasks[i]]
        /\ logs' = logs \ gone
  /\ UNCHANGED <<variant, ceiling, heap, taskQueue, activeTasks, loop, calls, aged, xvars, reply>>

\* time passes: the oldest task not yet 24 hours old becomes so
Tick ==
  /\ variant \in {"queued", "immediate", "part001"}
  /\ aged < Len(heap)
  /\ aged' = aged + 1
  /\ UNCHANGED <<variant, ceiling, heap, tasks, logs, taskQueue, activeTasks, loop, calls, xvars, reply>>


(***************************************************************************)
(* Part 2: the immediate-spawn variant, src/server.js lines 833-1551.      *)
(* A submission starts processTask at once; there is no queue, no          *)
(* isStopped flag and no stop-all.                                         *)
(***************************************************************************)
\* arithmetic and comparison on numbers that may be NaN
Mul(a, b) == IF a = NaN \/ b = NaN THEN NaN ELSE a * b
Less(a, b) == a # NaN /\ b # NaN /\ a < b

RECURSIVE ImmBatchHead(_, _, _), ImmConvHead(_, _, _, _), ImmMsgHead(_, _, _, _, _)

\* lines 1505-1507: the end of the loop
ImmFinish(st, h) ==
  LET t == st.heap[h]
      s1 == [st EXCEPT !.heap[h].status = "completed",
                       !.loop[h] = [NotStarted EXCEPT !.pc = "done"]]
  IN addLog(tasksSet(s1, t.id, h), t.id)

\* lines 1496-1502, then the next iteration of the batch loop
ImmAfterConversations(st, h, batch) ==
  LET t == st.heap[h]
  IN IF Less(batch, t.batch_count - 1)
     THEN [addLog(st, t.id) EXCEPT !.loop[h] = [NotStarted EXCEPT !.pc = "waitBatch",
                                                                 !.batch = batch]]
     ELSE ImmBatchHead(st, h, batch + 1)

\* lines 1456-1459
ImmBatchHead(st, h, batch) ==
  LET t == st.heap[h]
  IN IF Less(batch, t.batch_count)
     THEN IF t.status = "stopped" THEN ImmFinish(st, h)
          ELSE ImmConvHead(addLog(st, t.id), h, batch, 0)
     ELSE ImmFinish(st, h)

\* lines 1461-1462
ImmConvHead(st, h, batch, conv) ==
  LET t == st.heap[h]
  IN IF conv < t.conversations
     THEN IF t.status = "stopped" THEN ImmAfterConversations(st, h, batch)
          ELSE ImmMsgHead(st, h, batch, conv, 0)
     ELSE ImmAfterConversations(st, h, batch)

\* lines 1464-1473
ImmMsgHead(st, h, batch, conv, msg) ==
  LET t == st.heap[h]
  IN IF msg < t.messages
     THEN IF t.status = "stopped" THEN ImmConvHead(st, h, batch, conv + 1)
          ELSE [addLog(st, t.id) EXCEPT
                  !.loop[h] = [pc |-> "deliver", batch |-> batch, cookie |-> 0,
                               conv |-> conv, msg |-> msg],
                  !.calls[h] = Append(@, <<batch, conv, msg>>)]
     ELSE ImmConvHead(st, h, batch, conv + 1)

\* lines 1475-1492: sendFacebookMessage has returned success
ImmAfterDelivery(st, h, success) ==
  LET t == st.heap[h]
      completed == t.completed + 1
      t1 == [t EXCEPT !.completed = completed,
                      !.progress = IF t.total = NaN THEN NaN
                                   ELSE Round(completed * 100, t.total),
                      !.success = IF success THEN @ + 1 ELSE @,
                      !.failed = IF success THEN @ ELSE @ + 1]
      s1 == tasksSet([st EXCEPT !.heap[h] = t1], t.id, h)
      l == st.loop[h]
  IN IF Less(t1.completed, t1.total)
     THEN [s1 EXCEPT !.loop[h].pc = "waitOp"]
     ELSE ImmMsgHead(s1, h, l.batch, l.conv, l.msg + 1)

\* lines 1451-1455
ImmProcessTask(st, taskId) ==
  LET h == st.tasks[taskId]
  IN IF h = NoTask THEN st ELSE ImmBatchHead(st, h, 0)

\* lines 1157-1173: the task object of a submission
ImmNewTask(taskId, raw, nconv, nmsg) ==
  [id |-> taskId, status |-> "running", progress |-> 0,
   total |-> Mul(Mul(raw.num, nmsg), nconv),
   completed |-> 0, success |-> 0, failed |-> 0,
   messages |-> nmsg, conversations |-> nconv, batch_count |-> raw.int]

\* POST /api/start-task, lines 1115-1200, for a submission with the three
\* fields present and at least one cookie; the message list and the
\* conversation list may be empty after the filter of lines 1146-1147
ImmStartTask(taskId, raw, nconv, nmsg) ==
  /\ variant = "immediate"
  /\ LET task == ImmNewTask(taskId, raw, nconv, nmsg)
         h == Len(heap) + 1
         s1 == [State EXCEPT !.heap = Append(@, task),
                             !.loop = Append(@, NotStarted),
                             !.calls = Append(@, <<>>)]
         s2 == addLog([tasksSet(s1, taskId, h) EXCEPT !.logs = @ \cup {taskId}], taskId)
     IN /\ WithinBounds(task)
        /\ Becomes(ImmProcessTask(s2, taskId))

\* POST /api/stop-task/:taskId, lines 1239-1257
ImmStopTask(taskId) ==
  /\ variant = "immediate"
  /\ tasks[taskId] # NoTask
  /\ Becomes(addLog([State EXCEPT !.heap[tasks[taskId]].status = "stopped"], taskId))

ImmDeliveryReturns(h, success) ==
  /\ variant = "immediate"
  /\ loop[h].pc = "deliver"
  /\ Becomes(ImmAfterDelivery(State, h, success))

\* the delay of lines 1489-1491 is over
ImmOpDelayElapses(h) ==
  /\ variant = "immediate"
  /\ loop[h].pc = "waitOp"
  /\ Becomes(ImmMsgHead(State, h, loop[h].batch, loop[h].conv, loop[h].msg + 1))

\* the delay of lines 1499-1501 is over
ImmBatchDelayElapses(h) ==
  /\ variant = "immediate"
  /\ loop[h].pc = "waitBatch"
  /\ Becomes(ImmBatchHead(State, h, loop[h].batch + 1))

\* cleanup, lines 1517-1528: every task older than 24 hours goes
ImmCleanup ==
  /\ variant = "immediate"
  /\ LET gone == {i \in Ids : tasks[i] # NoTask /\ tasks[i] <= aged}
     IN /\ gone # {}
        /\ tasks' = [i \in Ids |-> IF i \in gone THEN NoTask ELSE tasks[i]]
        /\ logs' = logs \ gone
  /\ UNCHANGED <<variant, ceiling, heap, taskQueue, activeTasks, loop, calls, aged, xvars, reply>>

(***************************************************************************)
(* Part 3: the immediate-spawn variant of src/unnamed/part_002.  A task    *)
(* has one credential set per cookie line; the loop is an async function   *)
(* started inside POST /api/start.  There are no per-task logs, no         *)
(* stop-all and no cleanup.                                                *)
(***************************************************************************)
RECURSIVE P2BatchHead(_, _, _), P2CookieHead(_, _, _, _), P2ConvHead(_, _, _, _, _),
          P2MsgHead(_, _, _, _, _, _)

\* lines 444-447: the end of the loop
P2Finish(st, h) ==
  tasksSet([st EXCEPT !.heap[h].status = "completed",
                      !.loop[h] = [NotStarted EXCEPT !.pc = "done"]],
           st.heap[h].id, h)

\* lines 435-441, then the next iteration of the batch loop
P2AfterCookies(st, h, batch) ==
  IF batch < st.heap[h].batchCount - 1
  THEN [st EXCEPT !.loop[h] = [NotStarted EXCEPT !.pc = "waitBatch", !.batch = batch]]
  ELSE P2BatchHead(st, h, batch + 1)

\* lines 383-384
P2BatchHead(st, h, batch) ==
  IF batch < st.heap[h].batchCount THEN P2CookieHead(st, h, batch, 0)
  ELSE P2Finish(st, h)

\* lines 386-387
P2CookieHead(st, h, batch, cookie) ==
  IF cookie < st.heap[h].cookies THEN P2ConvHead(st, h, batch, cookie, 0)
  ELSE P2AfterCookies(st, h, batch)

\* line 389
P2ConvHead(st, h, batch, cookie, conv) ==
  IF conv < st.heap[h].conversations THEN P2MsgHead(st, h, batch, cookie, conv, 0)
  ELSE P2CookieHead(st, h, batch, cookie + 1)

\* lines 390-403: the only place where the status is looked at
P2MsgHead(st, h, batch, cookie, conv, msg) ==
  LET t == st.heap[h]
  IN IF msg < t.messages
     THEN IF t.status # "running" THEN P2ConvHead(st, h, batch, cookie, conv + 1)
          ELSE [st EXCEPT
                  !.loop[h] = [pc |-> "deliver", batch |-> batch, cookie |-> cookie,
                               conv |-> conv, msg |-> msg],
                  !.calls[h] = Append(@, <<batch, cookie, conv, msg>>)]
     ELSE P2ConvHead(st, h, batch, cookie, conv + 1)

\* lines 405-430: sendFacebookMessage has returned success; the delay that
\* follows is unconditional
P2AfterDelivery(st, h, success) ==
  LET t == st.heap[h]
      t1 == [t EXCEPT !.sent = IF success THEN @ + 1 ELSE @,
                      !.failed = IF success THEN @ ELSE @ + 1]
      t2 == [t1 EXCEPT !.progress = Round((t1.sent + t1.failed) * 100, t1.total)]
  IN [tasksSet([st EXCEPT !.heap[h] = t2], t.id, h) EXCEPT !.loop[h].pc = "waitOp"]

\* lines 297-303 and 451-455: browser.close() rejects inside the catch block
\* of sendFacebookMessage, the rejection reaches the catch of the loop
P2AfterThrow(st, h) ==
  tasksSet([st EXCEPT !.heap[h].status = "failed",
                      !.loop[h] = [NotStarted EXCEPT !.pc = "done"]],
           st.heap[h].id, h)

\* lines 321 and 361-376: the task object of a submission
P2NewTask(taskId, raw, ncookie, nconv, nmsg) ==
  LET batchCount == IF raw.int = NaN \/ raw.int = 0 THEN 1 ELSE raw.int
  IN [id |-> taskId, cookies |-> ncookie, messages |-> nmsg, conversations |-> nconv,
      batchCount |-> batchCount, status |-> "running", progress |-> 0,
      sent |-> 0, failed |-> 0,
      total |-> ncookie * nmsg * nconv * batchCount]

\* POST /api/start, lines 311-471, for a submission with at least one
\* cookie line, one message and one conversation
P2Start(taskId, raw, ncookie, nconv, nmsg) ==
  /\ variant = "part002"
  /\ LET task == P2NewTask(taskId, raw, ncookie, nconv, nmsg)
         h == Len(heap) + 1
         s1 == [State EXCEPT !.heap = Append(@, task),
                             !.loop = Append(@, NotStarted),
                             !.calls = Append(@, <<>>)]
     IN /\ WithinBounds(task)
        /\ Becomes(P2BatchHead(tasksSet(s1, taskId, h), h, 0))

\* POST /api/stop/:taskId, lines 473-484
P2Stop(taskId) ==
  /\ variant = "part002"
  /\ tasks[taskId] # NoTask
  /\ Becomes([State EXCEPT !.heap[tasks[taskId]].status = "stopped"])

P2DeliveryReturns(h, success) ==
  /\ variant = "part002"
  /\ loop[h].pc = "deliver"
  /\ Becomes(P2AfterDelivery(State, h, success))

P2DeliveryThrows(h) ==
  /\ variant = "part002"
  /\ loop[h].pc = "deliver"
  /\ Becomes(P2AfterThrow(State, h))

\* the delay of lines 428-430 is over
P2OpDelayElapses(h) ==
  /\ variant = "part002"
  /\ loop[h].pc = "waitOp"
  /\ Becomes(P2MsgHead(State, h, loop[h].batch, loop[h].cookie, loop[h].conv,
                       loop[h].msg + 1))

\* the delay of lines 438-440 is over
P2BatchDelayElapses(h) ==
  /\ variant = "part002"
  /\ loop[h].pc = "waitBatch"
  /\ Becomes(P2BatchHead(State, h, loop[h].batch + 1))

(***************************************************************************)
(* Part 4: the two expansions of one batch into operations.  src/index.js  *)
(* computes the three list indices from a running operation index;         *)
(* src/unnamed/part_002 runs three nested loops.  Each is stepped here on  *)
(* its own, one operation at a time, and records the (cookie,              *)
(* conversation, message) indices of the operations it reaches.            *)
(***************************************************************************)
\* IndexTuple with the message and the conversation index taken in the
\* other order
IndexTupleSwapped(index, C, T, M) ==
  LET convIdx == index % T
      msgIdx == (index \div T) % M
      cookieIdx == (index \div (M * T)) % C
  IN <<cookieIdx, convIdx, msgIdx>>

\* src/index.js lines 447-449, for task.index = index
IndexTuple(index, C, T, M) ==
  LET msgIdx == index % M
      convIdx == (index \div M) % T
      cookieIdx == (index \div (M * T)) % C
  IN <<cookieIdx, convIdx, msgIdx>>

\* src/index.js lines 446-476: one turn of the while loop of a task that is
\* not stopped; line 439 sets the total
IndexStep ==
  /\ xidx.index < xin.M * xin.T * xin.C
  /\ xidx' = [index |-> xidx.index + 1,
              out |-> Append(xidx.out, IndexTuple(xidx.index, xin.C, xin.T, xin.M))]
  /\ UNCHANGED <<qvars, xin, xnest, logEntries, census, reply>>

\* part_002 lines 386-390: the loop counters after the body has run at
\* (cookie, conv, msg): the message loop is innermost, the cookie loop outermost
NestAdvance(p, C, T, M) ==
  IF p.msg + 1 < M THEN [p EXCEPT !.msg = @ + 1]
  ELSE IF p.conv + 1 < T THEN [p EXCEPT !.conv = @ + 1, !.msg = 0]
  ELSE [p EXCEPT !.cookie = @ + 1, !.conv = 0, !.msg = 0]

\* part_002 lines 386-431: one turn of the innermost loop body, in one batch
\* of a task that is not stopped
NestStep ==
  /\ xnest.cookie < xin.C
  /\ xnest' = [NestAdvance(xnest, xin.C, xin.T, xin.M) EXCEPT
                 !.out = Append(xnest.out, <<xnest.cookie, xnest.conv, xnest.msg>>)]
  /\ UNCHANGED <<qvars, xin, xidx, logEntries, census, reply>>

(***************************************************************************)
(* Part 5: the immediate-spawn variant of src/unnamed/part_001.  A         *)
(* submission starts processTask at once; stop-task and stop-all-tasks set *)
(* isStopped and the status; the cleanup spares the tasks that are running *)
(* and the tasks whose isStopped is set.  addLog (lines 78-97) appends     *)
(* only to a log array that exists, so the key set of logs changes in      *)
(* start-task and in the cleanup only.  sendFacebookMessage catches every  *)
(* error (lines 649-661), so the catch block of processTask is not         *)
(* reached.                                                                *)
(***************************************************************************)
RECURSIVE P1BatchHead(_, _, _), P1ConvHead(_, _, _, _), P1MsgHead(_, _, _, _, _)

\* lines 731-736: the end of processTask
P1Finalize(st, h) ==
  LET t == st.heap[h]
      s1 == [st EXCEPT !.loop[h] = [NotStarted EXCEPT !.pc = "done"]]
  IN IF ~t.isStopped
     THEN tasksSet([s1 EXCEPT !.heap[h].status = "completed"], t.id, h)
     ELSE s1

\* lines 721-728: the delay between two batches
P1AfterConversations(st, h, batch) ==
  LET t == st.heap[h]
  IN IF batch < t.batch_count - 1 /\ ~t.isStopped
     THEN [st EXCEPT !.loop[h] = [NotStarted EXCEPT !.pc = "waitBatch", !.batch = batch]]
     ELSE P1BatchHead(st, h, batch + 1)

\* lines 675-683: the head of the batch loop
P1BatchHead(st, h, batch) ==
  LET t == st.heap[h]
  IN IF batch < t.batch_count
     THEN IF t.isStopped
          THEN P1Finalize(tasksSet([st EXCEPT !.heap[h].status = "stopped"], t.id, h), h)
          ELSE P1ConvHead(st, h, batch, 0)
     ELSE P1Finalize(st, h)

\* lines 685-686: the head of the conversation loop
P1ConvHead(st, h, batch, conv) ==
  LET t == st.heap[h]
  IN IF conv < t.conversations
     THEN IF t.isStopped THEN P1AfterConversations(st, h, batch)
          ELSE P1MsgHead(st, h, batch, conv, 0)
     ELSE P1AfterConversations(st, h, batch)

\* lines 688-697: the head of the message loop
P1MsgHead(st, h, batch, conv, msg) ==
  LET t == st.heap[h]
  IN IF msg < t.messages
     THEN IF t.isStopped THEN P1ConvHead(st, h, batch, conv + 1)
          ELSE [st EXCEPT !.loop[h] = [pc |-> "deliver", batch |-> batch, cookie |-> 0,
                                       conv |-> conv, msg |-> msg],
                          !.calls[h] = Append(@, <<batch, conv, msg>>)]
     ELSE P1ConvHead(st, h, batch, conv + 1)

\* lines 699-718: sendFacebookMessage has returned success
P1AfterDelivery(st, h, success) ==
  LET t == st.heap[h]
      completed == t.completed + 1
      t1 == [t EXCEPT !.completed = completed,
                      !.progress = Round(completed * 100, t.total),
                      !.success = IF success THEN @ + 1 ELSE @,
                      !.failed = IF success THEN @ ELSE @ + 1]
      s1 == tasksSet([st EXCEPT !.heap[h] = t1], t.id, h)
      l == st.loop[h]
  IN IF t1.completed < t1.total /\ ~t1.isStopped
     THEN [s1 EXCEPT !.loop[h].pc = "waitOp"]
     ELSE P1MsgHead(s1, h, l.batch, l.conv, l.msg + 1)

\* lines 665-673: processTask up to its first await
P1ProcessTask(st, taskId) ==
  LET h == st.tasks[taskId]
  IN IF h = NoTask THEN st ELSE P1BatchHead(st, h, 0)

\* lines 284-306: the task object of a submission
P1NewTask(taskId, raw, nconv, nmsg) ==
  LET batchCount == BatchCountOf(raw)
  IN [id |-> taskId, status |-> "running", progress |-> 0,
      total |-> batchCount * nmsg * nconv, completed |-> 0, success |-> 0, failed |-> 0,
      messages |-> nmsg, conversations |-> nconv, batch_count |-> batchCount,
      isStopped |-> FALSE]

\* POST /api/start-task, lines 219-341, for a submission with at least one
\* cookie, one message and one conversation id
P1StartTask(taskId, raw, nconv, nmsg) ==
  /\ variant = "part001"
  /\ Len(heap) < MaxSweepTasks
  /\ LET task == P1NewTask(taskId, raw, nconv, nmsg)
         h == Len(heap) + 1
         s1 == [State EXCEPT !.heap = Append(@, task),
                             !.loop = Append(@, NotStarted),
                             !.calls = Append(@, <<>>),
                             !.logs = @ \cup {taskId}]
     IN /\ task.total <= MaxOps
        /\ Becomes(P1ProcessTask(tasksSet(s1, taskId, h), taskId))

\* POST /api/stop-task/:taskId, lines 401-422, when the task is found
P1StopTask(taskId) ==
  /\ variant = "part001"
  /\ tasks[taskId] # NoTask
  /\ Becomes([State EXCEPT !.heap[tasks[taskId]].isStopped = TRUE,
                           !.heap[tasks[taskId]].status = "stopped"])

\* POST /api/stop-all-tasks, lines 424-443
P1StopAllTasks ==
  /\ variant = "part001"
  /\ LET hit == {tasks[i] : i \in {j \in Ids : tasks[j] # NoTask
                                               /\ heap[tasks[j]].status = "running"}}
     IN Becomes([State EXCEPT !.heap = [h \in Handles |->
                   IF h \in hit THEN [heap[h] EXCEPT !.isStopped = TRUE, !.status = "stopped"]
                   ELSE heap[h]]])

P1DeliveryReturns(h, success) ==
  /\ variant = "part001"
  /\ loop[h].pc = "deliver"
  /\ Becomes(P1AfterDelivery(State, h, success))

\* the delay of lines 714-718 is over
P1OpDelayElapses(h) ==
  /\ variant = "part001"
  /\ loop[h].pc = "waitOp"
  /\ Becomes(P1MsgHead(State, h, loop[h].batch, loop[h].conv, loop[h].msg + 1))

\* the delay of lines 722-727 is over
P1BatchDelayElapses(h) ==
  /\ variant = "part001"
  /\ loop[h].pc = "waitBatch"
  /\ Becomes(P1BatchHead(State, h, loop[h].batch + 1))

\* lines 752-755: what the cleanup deletes
P1Expired(h) == h <= aged /\ heap[h].status # "running" /\ ~heap[h].isStopped

\* cleanup, lines 746-764, when it finds a task to delete
P1Cleanup ==
  /\ variant = "part001"
  /\ LET gone == {i \in Ids : tasks[i] # NoTask /\ P1Expired(tasks[i])}
     IN /\ gone # {}
        /\ tasks' = [i \in Ids |-> IF i \in gone THEN NoTask ELSE tasks[i]]
        /\ logs' = logs \ gone
  /\ UNCHANGED <<variant, ceiling, heap, taskQueue, activeTasks, loop, calls, aged, xvars, reply>>

(***************************************************************************)
(* Part 6: the log arrays of the queued variant, src/server.js lines       *)
(* 83-101 and 399-407.  Parts 1 to 5 keep the key set of the logs Map      *)
(* only; here the value of each key is kept.  An entry is a string made of *)
(* a time stamp and a message; what matters of it is which call of addLog  *)
(* wrote it, so an entry is the number of that call among the calls for    *)
(* its identifier since the array was created.  An identifier without a    *)
(* key has the array <<>>: addLog pushes to an array as soon as it creates *)
(* it, so no key holds an empty array.                                     *)
(***************************************************************************)
LogIds == 1..NumLogIds
NoLogs == [i \in LogIds |-> <<>>]

\* the entry the next call of addLog writes to the array taskLogs
NextEntry(taskLogs) == IF taskLogs = <<>> THEN 1 ELSE taskLogs[Len(taskLogs)] + 1

\* pushEntry with the newest entry dropped, instead of the oldest, when the
\* cap is exceeded
pushEntryDropsNewest(taskLogs, logEntry) ==
  LET pushed == Append(taskLogs, logEntry)
  IN IF Len(pushed) > LOG_CAP THEN SubSeq(pushed, 1, Len(pushed) - 1) ELSE pushed

\* lines 93-98: taskLogs.push(entry), then taskLogs.shift() when the array is
\* longer than 500
pushEntry(taskLogs, logEntry) ==
  LET pushed == Append(taskLogs, logEntry)
  IN IF Len(pushed) > LOG_CAP THEN Tail(pushed) ELSE pushed

\* sliceLast with the first n entries taken, as slice(0, n) does
sliceFirst(a, n) == SubSeq(a, 1, Min(n, Len(a)))

\* a.slice(-n): the last n elements of a, all of them when a is shorter
sliceLast(a, n) == SubSeq(a, Max(1, Len(a) - n + 1), Len(a))

\* number of calls of addLog for identifier i since its array was created
Appended(i) == NextEntry(logEntries[i]) - 1

\* addLog(taskId, ...), lines 83-101, called by a handler or by a loop; the
\* response of an earlier request has been sent by then
AddLog(taskId) ==
  /\ variant = "logs"
  /\ Appended(taskId) < LOG_CAP + MaxOver
  /\ \A j \in LogIds \ {taskId} : Min(Appended(taskId) + 1, Appended(j)) <= MaxShort
  /\ logEntries' = [logEntries EXCEPT
                      ![taskId] = pushEntry(@, NextEntry(@))]
  /\ reply' = NoReply
  /\ UNCHANGED <<qvars, xin, xidx, xnest, census>>

\* GET /api/logs/:taskId, lines 399-407
LogsRequest(taskId) ==
  /\ variant = "logs"
  /\ reply' = [op |-> "logs", code |-> 200, count |-> 0, id |-> taskId,
               logs |-> sliceLast(logEntries[taskId], LOG_SLICE)]
  /\ UNCHANGED <<qvars, xvars>>

\* logs.delete(taskId), line 816 of the cleanup
DeleteLogs(taskId) ==
  /\ variant = "logs"
  /\ logEntries[taskId] # <<>>
  /\ logEntries' = [logEntries EXCEPT ![taskId] = <<>>]
  /\ reply' = NoReply
  /\ UNCHANGED <<qvars, xin, xidx, xnest, census>>

(***************************************************************************)
(* Part 7: the progress of a task of the queued variant as JavaScript      *)
(* computes it, src/server.js line 749:                                    *)
(*     task.progress = Math.round((task.completed / task.total) * 100)     *)
(* The division and the multiplication are operations on doubles, each     *)
(* rounded to 53 significant bits, ties to even.  A positive double is a   *)
(* record [m, e] with the value M * 2^(e - 52), 2^52 <= M < 2^53, where m  *)
(* is M written as three digits in base 2^18, most significant first.      *)
(* Parts 1 to 5 run tasks of at most MaxSoloOps operations, for which the  *)
(* result is that of Round.                                                *)
(***************************************************************************)
RECURSIVE DivSmall(_, _, _), TimesSmall(_, _, _), AddOne(_), Normalize(_, _, _),
          BitLength(_)

LIMB == 2^18

Front(s) == SubSeq(s, 1, Len(s) - 1)
Last(s) == s[Len(s)]

\* number of binary digits of the natural number n
BitLength(n) == IF n = 0 THEN 0 ELSE 1 + BitLength(n \div 2)

\* quotient and remainder of (rem * LIMB^Len(a) + a) by d, for rem < d
DivSmall(a, d, rem) ==
  IF a = <<>> THEN [q |-> <<>>, rem |-> rem]
  ELSE LET cur == rem * LIMB + Head(a)
           rest == DivSmall(Tail(a), d, cur % d)
       IN [q |-> <<cur \div d>> \o rest.q, rem |-> rest.rem]

\* a * f + carry, one digit longer than a
TimesSmall(a, f, carry) ==
  IF a = <<>> THEN <<carry>>
  ELSE LET v == Last(a) * f + carry
       IN Append(TimesSmall(Front(a), f, v \div LIMB), v % LIMB)

\* a + 1, for a below LIMB^Len(a) - 1
AddOne(a) ==
  IF Last(a) + 1 < LIMB THEN Append(Front(a), Last(a) + 1)
  ELSE Append(AddOne(Front(a)), 0)

\* the double nearest to (M or M + 1 when up) * 2^(e - 52), 2^52 <= M < 2^53
Rounded(m, e, up) ==
  LET r == IF up THEN AddOne(m) ELSE m
  IN IF r[1] >= 2^(PRECISION - 36) THEN [m |-> <<2^(PRECISION - 37), 0, 0>>, e |-> e + 1]
     ELSE [m |-> r, e |-> e]

\* r * 2^e = r' * 2^e' with t <= r' < 2 * t, for 0 < r <= t
Normalize(r, t, e) == IF r >= t THEN [r |-> r, e |-> e] ELSE Normalize(2 * r, t, e - 1)

\* the double c / t, for integers 0 < c <= t: the quotient of c * 2^(52 - e)
\* by t has 53 binary digits; it goes up when the remainder is more than
\* half of t, and to the even neighbour when it is exactly half
FloatDiv(c, t) ==
  LET e == Normalize(c, t, 0).e
      d == DivSmall(<<c * 2^(PRECISION - 37 - e), 0, 0>>, t, 0)
      up == 2 * d.rem > t \/ (2 * d.rem = t /\ Last(d.q) % 2 = 1)
  IN Rounded(d.q, e, up)

\* the double x * factor, for a positive double x and an integer factor >= 2:
\* the product has shift binary digits more than 53
FloatTimes(x, factor) ==
  LET product == TimesSmall(x.m, factor, 0)
      shift == BitLength(product[1]) + 1
      d == DivSmall(product, 2^shift, 0)
      half == 2^(shift - 1)
      up == d.rem > half \/ (d.rem = half /\ Last(d.q) % 2 = 1)
  IN Rounded(Tail(d.q), x.e + shift, up)

\* Math.round(x) for a double 0 < x < 2^16: the nearest integer, the larger
\* one when x is halfway; floor(2 * x) is M \div 2^(51 - e)
MathRound(x) ==
  IF x.e < -1 THEN 0
  ELSE LET twice == x.m[1] \div 2^(PRECISION - 38 - x.e)
       IN (twice + 1) \div 2

\* line 749
ProgressOf(completed, total) ==
  IF completed = 0 THEN 0
  ELSE MathRound(FloatTimes(FloatDiv(completed, total), PERCENT))

\* lines 748-749 in the loop of a task object
CountDelivery ==
  /\ variant = "progress"
  /\ heap[1].completed < heap[1].total
  /\ heap' = [heap EXCEPT ![1].completed = @ + 1,
                          ![1].progress = ProgressOf(heap[1].completed + 1, heap[1].total)]
  /\ UNCHANGED <<variant, ceiling, tasks, logs, taskQueue, activeTasks, loop, calls, aged,
                 xvars, reply>>

(***************************************************************************)
(* Part 8: the per-user limit of the queued variant with the limits of the *)
(* source, MAX_CONCURRENT_TASKS = 40 and MAX_TASKS_PER_USER = 10           *)
(* (src/server.js lines 14-15).  The tasks here have one operation, no     *)
(* stop request is made and generateTaskId never repeats a value, so a     *)
(* task is told from another only by its user_id and its status.  census   *)
(* counts them: running[u] is the number of registry tasks of user u with  *)
(* the status 'running', taskQueue lists the user_id of the task of each   *)
(* queued identifier in queue order, activeTasks is the counter.           *)
(***************************************************************************)
Submitters == {"u1", "u2", "u3", "u4", "u5"}

NoCensus == [running |-> [u \in Submitters |-> 0], taskQueue |-> <<>>, activeTasks |-> 0]

RECURSIVE Promote(_)
\* processTaskQueue, lines 793-804, with processTask up to its first await
\* (lines 722-725): every queued task here has the status 'queued' and is
\* not stopped
Promote(c) ==
  IF c.activeTasks < MAX_CONCURRENT_TASKS /\ Len(c.taskQueue) > 0
  THEN Promote([c EXCEPT !.taskQueue = Tail(@),
                         !.running[Head(c.taskQueue)] = @ + 1,
                         !.activeTasks = @ + 1])
  ELSE c

\* POST /api/start-task by user u, lines 267-347, for a submission that
\* passes the validation and the limit of lines 267-276
Submit(u) ==
  /\ variant = "users"
  /\ census.running[u] < MAX_TASKS_PER_USER
  /\ Len(census.taskQueue) < MaxWaiting
  /\ census' = Promote([census EXCEPT !.taskQueue = Append(@, u)])
  /\ UNCHANGED <<qvars, xin, xidx, xnest, logEntries, reply>>

\* POST /api/start-task by user u, lines 267-276: the limit is reached and
\* the response is 429; nothing is created
SubmitRefused(u) ==
  /\ variant = "users"
  /\ census.running[u] >= MAX_TASKS_PER_USER
  /\ UNCHANGED vars

\* the delivery of a running task of user u returns: lines 748-757, the
\* status becomes 'completed' (773-780), and the finally block gives the
\* slot back and processes the queue (785-789)
Finish(u) ==
  /\ variant = "users"
  /\ census.running[u] > 0
  /\ census' = Promote([census EXCEPT !.running[u] = @ - 1,
                                      !.activeTasks = @ - 1])
  /\ UNCHANGED <<qvars, xin, xidx, xnest, logEntries, reply>>

\* ----------------------------------------------------- the specifications
Idle ==
  /\ ceiling = 1
  /\ heap = <<>>
  /\ tasks = [i \in Ids |-> NoTask]
  /\ logs = {}
  /\ taskQueue = <<>>
  /\ activeTasks = 0
  /\ loop = <<>>
  /\ calls = <<>>
  /\ aged = 0
  /\ reply = NoReply

NoExpansion ==
  /\ xin = [C |-> 1, T |-> 1, M |-> 1]
  /\ xidx = [index |-> 0, out |-> <<>>]
  /\ xnest = [cookie |-> 0, conv |-> 0, msg |-> 0, out |-> <<>>]
  /\ logEntries = NoLogs
  /\ census = NoCensus

\* the queued variant: the server of src/server.js lines 1-830 after start-up,
\* for each value of MAX_CONCURRENT_TASKS
Init ==
  /\ variant = "queued"
  /\ ceiling \in 1..MaxCeiling
  /\ heap = <<>>
  /\ tasks = [i \in Ids |-> NoTask]
  /\ logs = {}
  /\ taskQueue = <<>>
  /\ activeTasks = 0
  /\ loop = <<>>
  /\ calls = <<>>
  /\ aged = 0
  /\ reply = NoReply
  /\ NoExpansion

Next ==
  \/ \E taskId \in generateTaskId, raw \in RawBatch, nconv \in 1..MaxConv,
        nmsg \in 1..MaxMsg, user \in Users : StartTask(taskId, raw, nconv, nmsg, user)
  \/ \E taskId \in Ids : StopTask(taskId)
  \/ StopAllTasks
  \/ \E h \in Handles, success \in BOOLEAN : DeliveryReturns(h, success)
  \/ \E h \in Handles : OpDelayElapses(h)
  \/ \E h \in Handles : BatchDelayElapses(h)
  \/ Cleanup
  \/ Tick

Spec == Init /\ [][Next]_vars

\* LoopStep when the delivery calls of all tasks go through one browser, one
\* at a time in the order of the tasks
LoopStepInTurn(h) ==
  /\ h \in Handles
  /\ \A g \in 1..(h - 1) : loop[g].pc # "deliver"
  /\ \/ \E success \in BOOLEAN : DeliveryReturns(h, success)
     \/ OpDelayElapses(h)
     \/ BatchDelayElapses(h)

\* one step of the loop of task object h: a delivery call returns, or a timer
\* of wait() fires
LoopStep(h) ==
  /\ h \in Handles
  /\ \/ \E success \in BOOLEAN : DeliveryReturns(h, success)
     \/ OpDelayElapses(h)
     \/ BatchDelayElapses(h)

\* the queued variant in the 24 hours after start-up, when no task is older
\* than the retention window and the cleanup finds nothing to delete
LiveNext ==
  \/ \E taskId \in generateTaskId, raw \in RawBatch, nconv \in 1..MaxConv,
        nmsg \in 1..MaxMsg, user \in Users :
        StartTask(taskId, raw, nconv, nmsg, user) /\ Len(heap') <= MaxLiveTasks
  \/ \E taskId \in Ids : StopTask(taskId)
  \/ StopAllTasks
  \/ \E h \in Handles : LoopStep(h)

\* every delivery call returns and every timer fires
SpecLive == Init /\ [][LiveNext]_vars /\ \A h \in 1..MaxLiveTasks : WF_vars(LoopStep(h))

\* the task object whose first call of sendFacebookMessage never returns
Hung == 1

\* the queued variant in the 24 hours after start-up, when the first delivery
\* call of the first task never returns: its loop stays suspended at line 739
HangNext ==
  \/ \E taskId \in generateTaskId, raw \in RawBatch, nconv \in 1..MaxConv,
        nmsg \in 1..MaxMsg, user \in Users :
        StartTask(taskId, raw, nconv, nmsg, user) /\ Len(heap') <= MaxLiveTasks
  \/ \E taskId \in Ids : StopTask(taskId)
  \/ StopAllTasks
  \/ \E h \in Handles \ {Hung} : LoopStep(h)

\* every other delivery call returns and every timer fires
SpecHang ==
  /\ Init
  /\ [][HangNext]_vars
  /\ \A h \in 1..MaxLiveTasks : WF_vars(h # Hung /\ LoopStep(h))

\* the queued variant in the 24 hours after start-up with errors raised
\* inside the loop
FaultNext ==
  \/ \E taskId \in generateTaskId, raw \in RawBatch, nconv \in 1..MaxConv,
        nmsg \in 1..MaxMsg, user \in Users : StartTask(taskId, raw, nconv, nmsg, user)
  \/ \E taskId \in Ids : StopTask(taskId)
  \/ StopAllTasks
  \/ \E h \in Handles : LoopStep(h)
  \/ \E h \in Handles : LoopThrows(h)

SpecFault == Init /\ [][FaultNext]_vars

\* the lengths of the three parsed lists of a submission, one of them empty
EmptyLists ==
  {x \in (0..1) \X (0..MaxConv) \X (0..MaxMsg) : x[1] = 0 \/ x[2] = 0 \/ x[3] = 0}

\* what generateTaskId returns for a submission that is rejected afterwards
AnyTaskId == CHOOSE i \in generateTaskId : TRUE

\* the queued variant with the responses of its handlers, in the 24 hours
\* after start-up, for submissions with a batch_count that is a number
ReplyNext ==
  \/ \E taskId \in generateTaskId, n \in 1..MaxBatch, nconv \in 1..MaxConv,
        nmsg \in 1..MaxMsg, user \in Users :
        /\ StartTaskRequest(taskId, [num |-> n, int |-> n], 1, nconv, nmsg, user)
        /\ Len(heap') <= MaxLiveTasks
  \/ \E x \in EmptyLists, user \in Users :
        StartTaskRequest(AnyTaskId, [num |-> 1, int |-> 1], x[1], x[2], x[3], user)
  \/ \E taskId \in Ids : GetTaskRequest(taskId)
  \/ \E taskId \in Ids : StopTaskRequest(taskId)
  \/ StopAllRequest
  \/ \E h \in Handles : LoopStep(h)

SpecReply == Init /\ [][ReplyNext]_vars

\* the immediate-spawn variants: the server of src/server.js lines 833-1551,
\* or the server of src/unnamed/part_002, after start-up
SpawnInit ==
  /\ variant \in {"immediate", "part002"}
  /\ Idle
  /\ NoExpansion

SpawnNext ==
  \/ \E taskId \in generateTaskId, raw \in RawBatch, nconv \in 0..MaxConv,
        nmsg \in 0..MaxMsg : ImmStartTask(taskId, raw, nconv, nmsg)
  \/ \E taskId \in Ids : ImmStopTask(taskId)
  \/ \E h \in Handles, success \in BOOLEAN : ImmDeliveryReturns(h, success)
  \/ \E h \in Handles : ImmOpDelayElapses(h)
  \/ \E h \in Handles : ImmBatchDelayElapses(h)
  \/ ImmCleanup
  \/ Tick
  \/ \E taskId \in generateTaskId, raw \in RawBatch, ncookie \in 1..MaxCookies,
        nconv \in 1..MaxConv, nmsg \in 1..MaxMsg :
        P2Start(taskId, raw, ncookie, nconv, nmsg)
  \/ \E taskId \in Ids : P2Stop(taskId)
  \/ \E h \in Handles, success \in BOOLEAN : P2DeliveryReturns(h, success)
  \/ \E h \in Handles : P2DeliveryThrows(h)
  \/ \E h \in Handles : P2OpDelayElapses(h)
  \/ \E h \in Handles : P2BatchDelayElapses(h)

SpecSpawn == SpawnInit /\ [][SpawnNext]_vars

\* the two expansions, for every choice of the three list lengths
ExpandInit ==
  /\ variant = "expand"
  /\ Idle
  /\ xin \in [C : 1..MaxCookies, T : 1..MaxConv, M : 1..MaxMsg]
  /\ xidx = [index |-> 0, out |-> <<>>]
  /\ xnest = [cookie |-> 0, conv |-> 0, msg |-> 0, out |-> <<>>]
  /\ logEntries = NoLogs
  /\ census = NoCensus

ExpandNext == IndexStep \/ NestStep

SpecExpand == ExpandInit /\ [][ExpandNext]_vars

\* the server of src/unnamed/part_001 after start-up
SweepInit ==
  /\ variant = "part001"
  /\ Idle
  /\ NoExpansion

\* one step of the loop of task object h in src/unnamed/part_001
P1LoopStep(h) ==
  /\ h \in Handles
  /\ \/ \E success \in BOOLEAN : P1DeliveryReturns(h, success)
     \/ P1OpDelayElapses(h)
     \/ P1BatchDelayElapses(h)

SweepNext ==
  \/ \E taskId \in generateTaskId, n \in 1..MaxBatch, nconv \in 1..MaxConv,
        nmsg \in 1..MaxMsg : P1StartTask(taskId, [num |-> n, int |-> n], nconv, nmsg)
  \/ \E taskId \in Ids : P1StopTask(taskId)
  \/ P1StopAllTasks
  \/ \E h \in Handles : P1LoopStep(h)
  \/ P1Cleanup
  \/ Tick

\* every delivery call returns, every timer fires, time passes and the
\* cleanup interval keeps firing
SpecSweep ==
  /\ SweepInit
  /\ [][SweepNext]_vars
  /\ \A h \in 1..MaxSweepTasks : WF_vars(P1LoopStep(h))
  /\ WF_vars(Tick)
  /\ WF_vars(P1Cleanup)

\* the log arrays of the queued server after start-up
LogsInit ==
  /\ variant = "logs"
  /\ Idle
  /\ NoExpansion

LogsNext ==
  \/ \E taskId \in LogIds : AddLog(taskId)
  \/ \E taskId \in LogIds : LogsRequest(taskId)
  \/ \E taskId \in LogIds : DeleteLogs(taskId)

SpecLogs == LogsInit /\ [][LogsNext]_vars

\* a task of the queued server after its submission (lines 317-322), for
\* every total up to MaxTotal
ProgressInit ==
  /\ variant = "progress"
  /\ ceiling = 1
  /\ heap \in {<<[completed |-> 0, total |-> t, progress |-> 0]>> : t \in 1..MaxTotal}
  /\ tasks = [i \in Ids |-> NoTask]
  /\ logs = {}
  /\ taskQueue = <<>>
  /\ activeTasks = 0
  /\ loop = <<>>
  /\ calls = <<>>
  /\ aged = 0
  /\ reply = NoReply
  /\ NoExpansion

ProgressNext == CountDelivery

SpecProgress == ProgressInit /\ [][ProgressNext]_vars

\* the queued server after start-up, with the limits of the source
UsersInit ==
  /\ variant = "users"
  /\ Idle
  /\ NoExpansion

UsersNext ==
  \/ \E u \in Submitters : Submit(u)
  \/ \E u \in Submitters : SubmitRefused(u)
  \/ \E u \in Submitters : Finish(u)

SpecUsers == UsersInit /\ [][UsersNext]_vars

\* ==================================================================== claims
Terminal == {"completed", "stopped", "error", "failed"}
InFlight == {"deliver", "waitOp", "waitBatch"}

RunningCount ==
  Cardinality({i \in Ids : tasks[i] # NoTask /\ heap[tasks[i]].status = "running"})

\* C1: in the queued variant the number of registered tasks whose status is
\* 'running' never exceeds MAX_CONCURRENT_TASKS, for every ceiling >= 1.
C1_RunningWithinCeiling == variant = "queued" => RunningCount <= ceiling

\* C2: in the queued variant a stop of a task whose status is terminal leaves
\* the task (status, isStopped, counters) as it was.
C2_StopTerminalNoOp ==
  [][\A taskId \in Ids :
       (variant = "queued" /\ StopTask(taskId)
          /\ heap[tasks[taskId]].status \in Terminal)
       => heap'[tasks[taskId]] = heap[tasks[taskId]]]_vars

Edges == {<<"queued", "running">>, <<"queued", "stopped">>,
          <<"running", "completed">>, <<"running", "stopped">>,
          <<"running", "error">>}

\* C3: in the queued variant every change of a task's status follows one of
\* the edges queued->running, queued->stopped, running->completed,
\* running->stopped, running->error; a terminal status is never left.
C3_StatusEdges ==
  [][variant = "queued" =>
       \A h \in Handles :
          \/ heap'[h].status = heap[h].status
          \/ <<heap[h].status, heap'[h].status>> \in Edges]_vars

\* C4: in the queued variant a task whose loop has been started and whose
\* stop has been accepted has status 'stopped' in every state from the stop
\* on: while the loop is still in flight, when it exits and ever after (it
\* never ends as 'completed').
C4_StoppedStays ==
  variant = "queued" =>
    \A h \in Handles :
       (heap[h].isStopped /\ loop[h].pc # "none") => heap[h].status = "stopped"

\* a loop that was stopped in flight, after its first delivery, has exited
C4_Witness ==
  /\ variant = "queued"
  /\ \E h \in Handles : /\ heap[h].isStopped
                        /\ loop[h].pc = "done"
                        /\ heap[h].completed >= 1
                        /\ heap[h].completed < heap[h].total

\* C5: in the immediate-spawn variants, when the loop of a task whose stop
\* was accepted while the loop was in flight exits (every delivery having
\* returned), the status it leaves is 'stopped', not 'completed'.
C5_StoppedAtExit ==
  [][\A h \in Handles :
       (/\ variant \in {"immediate", "part002"}
        /\ heap[h].status = "stopped"
        /\ loop[h].pc \in InFlight
        /\ loop'[h].pc = "done"
        /\ ~P2DeliveryThrows(h))
       => heap'[h].status = "stopped"]_vars

\* C6: in the queued variant completed = success + failed for every task in
\* every state between two callbacks, which are the states a status query
\* can observe.
C6_CountersAgree ==
  variant = "queued" =>
    \A h \in Handles : heap[h].completed = heap[h].success + heap[h].failed

\* a loop is suspended in its delay after deliveries of both outcomes
C6_Witness ==
  /\ variant = "queued"
  /\ \E h \in Handles : /\ heap[h].success >= 1
                        /\ heap[h].failed >= 1
                        /\ loop[h].pc = "waitOp"

\* C7: in the queued variant 0 <= completed <= total for every task in every
\* reachable state.
C7_CompletedWithinTotal ==
  variant = "queued" =>
    \A h \in Handles : 0 <= heap[h].completed /\ heap[h].completed <= heap[h].total

\* a loop has run all the operations of the largest task
C7_Witness ==
  /\ variant = "queued"
  /\ \E h \in Handles : /\ heap[h].completed = heap[h].total
                        /\ heap[h].total = MaxSoloOps
                        /\ loop[h].pc = "done"

\* batchCount x |credential sets| x |targets| x |messages| of a task object
ProductOf(t) ==
  CASE variant = "queued" -> t.batch_count * 1 * t.conversations * t.messages
    [] variant = "immediate" -> Mul(t.batch_count, 1 * t.conversations * t.messages)
    [] variant = "part002" -> t.batchCount * t.cookies * t.conversations * t.messages

\* C8: the total of a task is batchCount x |credential sets| x |targets| x
\* |messages| from its submission on, and no step changes it.
C8_TotalFixed ==
  [][\A h \in 1..Len(heap') :
       /\ heap'[h].total = ProductOf(heap'[h])
       /\ h <= Len(heap) => heap'[h].total = heap[h].total]_vars

\* C9: the index arithmetic of src/index.js and the nested loops of part_002
\* reach the same (credential, target, message) tuples in the same order,
\* C * T * M of them, for all list lengths C, T, M >= 1.
C9_SameExpansion ==
  variant = "expand" =>
    /\ \A k \in 1..Min(Len(xidx.out), Len(xnest.out)) : xidx.out[k] = xnest.out[k]
    /\ (~ENABLED IndexStep /\ ~ENABLED NestStep)
         => /\ xidx.out = xnest.out
            /\ Len(xidx.out) = xin.C * xin.T * xin.M

\* both expansions have run to their end on lists of the largest lengths
C9_Witness ==
  /\ variant = "expand"
  /\ xin = [C |-> MaxCookies, T |-> MaxConv, M |-> MaxMsg]
  /\ ~ENABLED IndexStep
  /\ ~ENABLED NestStep

\* the operations of a task in the order batch, target, message
ExpandOrder(B, T, M) ==
  [k \in 1..(B * T * M) |->
     <<(k - 1) \div (T * M), ((k - 1) \div M) % T, (k - 1) % M>>]

IsPrefix(s, t) == Len(s) <= Len(t) /\ \A k \in 1..Len(s) : s[k] = t[k]

\* C10: in the queued variant the delivery calls of a task are issued in the
\* order batch -> target -> message, and a call is issued only when every
\* earlier call of the task has returned.
C10_SequentialInOrder ==
  variant = "queued" =>
    \A h \in Handles :
       LET t == heap[h]
           inFlight == Len(calls[h]) - t.completed
       IN /\ IsPrefix(calls[h], ExpandOrder(t.batch_count, t.conversations, t.messages))
          /\ inFlight = (IF loop[h].pc = "deliver" THEN 1 ELSE 0)

\* a task with two targets and two messages has issued its four calls
C10_Witness ==
  /\ variant = "queued"
  /\ \E h \in Handles : /\ heap[h].conversations = 2
                        /\ heap[h].messages = 2
                        /\ Len(calls[h]) = 4

\* the task object h is the value of the registry under its identifier
Registered(h) == tasks[heap[h].id] = h

\* this step is the one in which the loop of task object h exits
LoopEnds(h) == loop[h].pc \in InFlight /\ loop'[h].pc = "done"

\* C11: in the queued variant a task that is 'queued' becomes 'running' only
\* in a step in which the loop of another task ends, and when a loop ends the
\* registered task that has been 'queued' longest becomes 'running' in that
\* same step, with no request in between.
C11_PromotedAtLoopEnd ==
  [][variant = "queued" =>
       \A h \in Handles :
          /\ (heap[h].status = "queued" /\ heap'[h].status = "running")
               => \E h2 \in Handles \ {h} : LoopEnds(h2)
          /\ (/\ Registered(h)
              /\ heap[h].status = "queued"
              /\ \A g \in 1..(h - 1) : ~(Registered(g) /\ heap[g].status = "queued")
              /\ \E h2 \in Handles \ {h} : LoopEnds(h2))
               => heap'[h].status = "running"]_vars

\* C12: in the queued variant every delivery that returns true adds one to
\* success and every delivery that returns false adds one to failed, and
\* nothing else changes them; the status is never 'error'; a loop that ends
\* without a stop leaves status 'completed' and completed = total; and a loop
\* in flight ends, as 'completed' unless it was stopped.
C12_RunsToCompletion ==
  /\ [][variant = "queued" =>
          \A h \in Handles :
             LET ds == heap'[h].success - heap[h].success
                 df == heap'[h].failed - heap[h].failed
             IN IF DeliveryReturns(h, TRUE) THEN ds = 1 /\ df = 0
                ELSE IF DeliveryReturns(h, FALSE) THEN ds = 0 /\ df = 1
                ELSE ds = 0 /\ df = 0]_vars
  /\ [](variant = "queued" =>
          \A h \in Handles :
             /\ heap[h].status # "error"
             /\ (loop[h].pc = "done" /\ ~heap[h].isStopped)
                  => /\ heap[h].status = "completed"
                     /\ heap[h].completed = heap[h].total
                     /\ heap[h].success + heap[h].failed = heap[h].total)
  /\ \A h \in 1..MaxLiveTasks :
        (h \in Handles /\ loop[h].pc \in InFlight)
          ~> (h \in Handles /\ loop[h].pc = "done"
                /\ (heap[h].status = "completed" \/ heap[h].isStopped))

\* a loop that was never stopped has ended after every delivery returned false
C12_Witness ==
  /\ variant = "queued"
  /\ \E h \in Handles : /\ loop[h].pc = "done"
                        /\ ~heap[h].isStopped
                        /\ heap[h].total = MaxSoloOps
                        /\ heap[h].success = 0
                        /\ heap[h].failed = heap[h].total

\* C13: in the queued variant a stop of a registered task whose status is
\* 'queued' leaves it 'stopped' with its identifier nowhere in the queue, and
\* a task stopped before its loop was started stays 'stopped', its loop is
\* never started and no delivery call is issued for it.
C13_StoppedWhileQueued ==
  [][variant = "queued" =>
       \A h \in Handles :
          /\ (Registered(h) /\ heap[h].status = "queued" /\ StopTask(heap[h].id))
               => /\ heap'[h].status = "stopped"
                  /\ \A k \in 1..Len(taskQueue') : taskQueue'[k] # heap[h].id
          /\ (heap[h].isStopped /\ loop[h].pc = "none")
               => /\ heap'[h].status = "stopped"
                  /\ loop'[h].pc = "none"
                  /\ calls'[h] = <<>>]_vars

\* C14: in the queued variant, once the cancel flag of a task whose loop is
\* in flight is set, the next step of that loop ends the loop: no delivery
\* call and no delay is started after the one that was in progress.
C14_ExitsAtNextStep ==
  [][variant = "queued" =>
       \A h \in Handles :
          (heap[h].isStopped /\ loop[h].pc \in InFlight /\ loop'[h] # loop[h])
            => /\ loop'[h].pc = "done"
               /\ calls'[h] = calls[h]]_vars

\* a stop was accepted during a delay of a loop that has more to do
C14_Witness ==
  /\ variant = "queued"
  /\ \E h \in Handles : /\ heap[h].isStopped
                        /\ loop[h].pc \in {"waitOp", "waitBatch"}
                        /\ heap[h].completed < heap[h].total

\* C15: in the immediate-spawn variants, after stop is accepted for a task
\* whose loop is in flight, the loop starts no new delivery call, and the
\* first delay that elapses after the stop is followed by the exit of the
\* loop, not by another delay.
C15_ExitsAfterOneDelay ==
  [][(variant = "immediate" \/ variant = "part002") =>
       \A h \in Handles :
          (heap[h].status = "stopped" /\ loop[h].pc \in InFlight /\ loop'[h] # loop[h])
            => /\ calls'[h] = calls[h]
               /\ (loop[h].pc \in {"waitOp", "waitBatch"} => loop'[h].pc = "done")]_vars

\* the registry entries with status 'queued' or 'running'
Pending == {h \in Handles : Registered(h) /\ heap[h].status \in {"queued", "running"}}

C17_NotFoundChangesNothing ==
  [][\A taskId \in Ids :
       (/\ variant = "queued"
        /\ tasks[taskId] = NoTask
        /\ StopTaskRequest(taskId) \/ GetTaskRequest(taskId))
       => /\ reply'.code = 404
          /\ UNCHANGED <<heap, tasks, taskQueue, activeTasks, logs, loop, calls>>]_vars

\* a stop has answered 404 while a task runs and another waits in the queue
C17_Witness ==
  /\ variant = "queued"
  /\ reply = Response("stop", 404, 0)
  /\ taskQueue # <<>>
  /\ \E h \in Handles : loop[h].pc \in InFlight

Promoted == {g \in Handles : heap[g].status = "queued" /\ heap'[g].status = "running"}

\* the task object the registry holds for identifier i when the finally block
\* of the loop of task object h has written h back
HeldAfter(h, i) == IF i = heap[h].id THEN h ELSE tasks[i]

C20_DeliveryErrorIsCounted ==
  [][\A h \in Handles :
       (variant = "part002" /\ heap[h].status = "running" /\ P2DeliveryThrows(h)) =>
          /\ heap'[h].status # "failed"
          /\ heap'[h].failed = heap[h].failed + 1
          /\ heap'[h].sent = heap[h].sent
          /\ loop'[h].pc = "waitOp"]_vars

\* the identifiers the step removes from the registry
Removed == {i \in Ids : tasks[i] # NoTask /\ tasks'[i] = NoTask}

\* C21: in the queued variant every task the periodic sweep removes is, when
\* it is removed, in a terminal status and older than the retention window; a
\* task that is 'queued' or 'running' is never removed.
C21_SweepRemovesTerminalOnly ==
  [][(variant = "queued" /\ Cleanup) =>
        \A i \in Removed : /\ heap[tasks[i]].status \in Terminal
                           /\ tasks[i] <= aged]_vars

\* C22: in the immediate-spawn variant of src/server.js the periodic sweep
\* never removes a task whose status is 'running', whatever its age.
C22_SweepKeepsRunning ==
  [][(variant = "immediate" /\ ImmCleanup) =>
        \A i \in Removed : heap[tasks[i]].status # "running"]_vars

\* C23: in src/unnamed/part_001 every task that is registered, in a terminal
\* status and older than the retention window is removed from the registry
\* by some later run of the periodic sweep.
C23_TerminalIsSwept ==
  \A h \in 1..MaxSweepTasks :
     (/\ variant = "part001"
      /\ h \in Handles
      /\ Registered(h)
      /\ heap[h].status \in Terminal
      /\ h <= aged)
     ~> (h \in Handles /\ tasks[heap[h].id] # h)

\* the array holds the numbers a+1 .. b in increasing order
Consecutive(taskLogs) ==
  \A k \in 1..Len(taskLogs) : taskLogs[k] = taskLogs[1] + k - 1

\* C24: in the queued variant the log array of every identifier has at most
\* 500 entries, in the order of their append; it holds the most recent
\* min(n, 500) of the n entries appended to it; and an append to an array of
\* 500 entries discards exactly its oldest entry.
C24_LogKeepsLatest500 ==
  /\ [](variant = "logs" =>
          \A i \in LogIds :
             /\ Len(logEntries[i]) <= LOG_CAP
             /\ Consecutive(logEntries[i])
             /\ Len(logEntries[i]) = Min(Appended(i), LOG_CAP))
  /\ [][\A i \in LogIds :
          (variant = "logs" /\ AddLog(i)) =>
             /\ logEntries'[i][Len(logEntries'[i])] = NextEntry(logEntries[i])
             /\ Len(logEntries[i]) < LOG_CAP =>
                  logEntries'[i] = Append(logEntries[i], NextEntry(logEntries[i]))
             /\ Len(logEntries[i]) = LOG_CAP =>
                  logEntries'[i] = Append(Tail(logEntries[i]), NextEntry(logEntries[i]))
             /\ \A j \in LogIds \ {i} : logEntries'[j] = logEntries[j]]_vars

\* more than 500 entries have been appended to an array: the oldest are gone
C24_Witness ==
  /\ variant = "logs"
  /\ \E i \in LogIds : /\ Len(logEntries[i]) = LOG_CAP
                       /\ logEntries[i][1] = MaxOver + 1

\* C25: in the queued variant the response to a log query for an identifier
\* is a success; it carries the last min(100, L) entries of the identifier's
\* log array, L being its length, in the order of the array (most recent
\* last), and the empty sequence when the identifier has no log array.
C25_LogQueryLatest100 ==
  (variant = "logs" /\ reply.op = "logs") =>
     LET a == logEntries[reply.id]
         L == Len(a)
         n == Min(LOG_SLICE, L)
     IN /\ reply.code = 200
        /\ Len(reply.logs) = n
        /\ \A k \in 1..n : reply.logs[k] = a[L - n + k]
        /\ a = <<>> => reply.logs = <<>>

\* a query has been answered for an array of more than 100 entries
C25_Witness ==
  /\ variant = "logs"
  /\ reply.op = "logs"
  /\ Len(logEntries[reply.id]) > LOG_SLICE
  /\ Len(reply.logs) = LOG_SLICE

\* C26: in the queued variant queued tasks are promoted in the order of
\* their submission: when X was submitted before Y and both are 'queued', no
\* step makes Y 'running' and leaves X 'queued'.
C26_PromotedInSubmissionOrder ==
  [][\A x, y \in Handles :
       (/\ variant = "queued"
        /\ x < y
        /\ heap[x].status = "queued"
        /\ heap[y].status = "queued"
        /\ heap'[y].status = "running")
       => heap'[x].status # "queued"]_vars

\* C27: in the queued variant the identifier given to a newly submitted task
\* is the identifier of no task in the registry, so a submission replaces no
\* registry entry and puts no identifier into the queue a second time.
C27_FreshIdentifier ==
  [][(variant = "queued" /\ Len(heap') = Len(heap) + 1) =>
        LET taskId == heap'[Len(heap')].id
        IN /\ tasks[taskId] = NoTask
           /\ \A i \in Ids \ {taskId} : tasks'[i] # NoTask => tasks'[i] = tasks[i]
           /\ \A k, l \in 1..Len(taskQueue') :
                 (taskQueue'[k] = taskId /\ taskQueue'[l] = taskId) => k = l]_vars

\* C28: in the immediate-spawn variants every task that was created has a
\* batch count of at least 1 and a total of at least 1 operation.
C28_PositiveBatchAndTotal ==
  \A h \in Handles :
     /\ variant = "immediate" => (heap[h].batch_count >= 1 /\ heap[h].total >= 1)
     /\ variant = "part002" => (heap[h].batchCount >= 1 /\ heap[h].total >= 1)

\* C29: in the queued variant the progress of a task is
\* round(100 * completed / total) in every state between two callbacks, lies
\* in 0..100, and no step makes it smaller.
C29_ProgressIsRoundedPercent ==
  /\ [](variant = "progress" =>
          /\ heap[1].progress = Round(PERCENT * heap[1].completed, heap[1].total)
          /\ heap[1].progress \in 0..PERCENT)
  /\ [][variant = "progress" => heap'[1].progress >= heap[1].progress]_vars

\* C30: in the queued variant, while a delivery call of one running task
\* never returns, every other task that is 'running' executes its remaining
\* operations and reaches a terminal status: 'completed' with every
\* operation done when nobody stops it.
C30_OthersRunOn ==
  \A h \in 1..MaxLiveTasks :
     (/\ variant = "queued"
      /\ h \in Handles
      /\ h # Hung
      /\ loop[Hung].pc = "deliver"
      /\ heap[h].status = "running"
      /\ loop[h].pc \in InFlight)
     ~> (/\ h \in Handles
         /\ heap[h].status \in Terminal
         /\ loop[h].pc = "done"
         /\ ~heap[h].isStopped => (/\ heap[h].status = "completed"
                                   /\ heap[h].completed = heap[h].total)
         /\ loop[Hung].pc = "deliver")

\* the first task is still inside its first delivery call and another task
\* has completed all of its operations
C30_Witness ==
  /\ variant = "queued"
  /\ Len(heap) >= 2
  /\ loop[Hung].pc = "deliver"
  /\ heap[Hung].status = "running"
  /\ heap[Hung].completed = 0
  /\ \E h \in Handles \ {Hung} : /\ heap[h].status = "completed"
                                  /\ heap[h].completed = heap[h].total
                                  /\ heap[h].total >= 2

\* C31: in the queued variant, when every delivery call returns and no sweep
\* runs, every task that is 'queued' becomes 'running' or 'stopped' at some
\* later time.
C31_QueuedLeavesQueue ==
  \A h \in 1..MaxLiveTasks :
     (variant = "queued" /\ h \in Handles /\ heap[h].status = "queued")
     ~> (h \in Handles /\ heap[h].status \in {"running", "stopped"})

LoopsInFlight == {h \in Handles : loop[h].pc \in InFlight}

\* C32: in the queued variant activeTasks equals, in every reachable state,
\* the number of execution loops that have started and not yet finished; it
\* is therefore never negative and never above MAX_CONCURRENT_TASKS.
C32_ActiveTasksCountsLoops ==
  variant = "queued" =>
     /\ activeTasks = Cardinality(LoopsInFlight)
     /\ activeTasks >= 0
     /\ activeTasks <= ceiling

\* C33: in the queued variant, once the status of a task is terminal
\* (completed, stopped, failed or error) its completed, success, failed and
\* progress fields never change again.
C33_TerminalCountersFrozen ==
  [][\A h \in Handles :
        (variant = "queued" /\ heap[h].status \in Terminal) =>
           /\ h \in DOMAIN heap'
           /\ heap'[h].completed = heap[h].completed
           /\ heap'[h].success = heap[h].success
           /\ heap'[h].failed = heap[h].failed
           /\ heap'[h].progress = heap[h].progress]_vars

Occurrences(q, i) == Cardinality({k \in 1..Len(q) : q[k] = i})

\* C34: in the queued variant, between request handlers, an identifier is in
\* taskQueue exactly once if and only if it names a registry task whose status
\* is 'queued'; no other identifier is in the queue at all.
C34_QueueHoldsTheQueued ==
  variant = "queued" =>
     \A i \in Ids :
        /\ Occurrences(taskQueue, i) <= 1
        /\ Occurrences(taskQueue, i) = 1 <=>
              (tasks[i] # NoTask /\ heap[tasks[i]].status = "queued")

\* C35: in the queued variant the promotion is work-conserving: whenever the
\* FIFO queue is non-empty, activeTasks is at least MAX_CONCURRENT_TASKS.
C35_WorkConserving ==
  (variant = "queued" /\ taskQueue # <<>>) => activeTasks >= ceiling

\* a loop has ended and given its slot back while identifiers are waiting
C35_Witness ==
  /\ variant = "queued"
  /\ taskQueue # <<>>
  /\ activeTasks >= ceiling
  /\ \E h \in Handles : loop[h].pc = "done" /\ heap[h].status = "completed"

\* C36: in the queued variant no user has more than MAX_TASKS_PER_USER tasks
\* with the status 'running' at the same time, whatever the order of the
\* submissions of the users and of the promotions.
C36_RunningWithinUserLimit ==
  variant = "users" =>
     \A u \in Submitters : census.running[u] <= MAX_TASKS_PER_USER

OtherIds(q, i) == SelectSeq(q, LAMBDA x : x # i)

\* C37: in the queued variant a stop request for task X changes only X: the
\* status, the cancel flag and the counters of every other task, the relative
\* order of the other identifiers in taskQueue, and activeTasks stay as they
\* were.
C37_StopTouchesOnlyItsTask ==
  [][\A i \in Ids :
        StopTask(i) =>
           /\ \A g \in Handles \ {tasks[i]} : heap'[g] = heap[g]
           /\ OtherIds(taskQueue', i) = OtherIds(taskQueue, i)
           /\ activeTasks' = activeTasks]_vars

\* a queued task has been stopped while one task runs and another waits
C37_Witness ==
  /\ variant = "queued"
  /\ taskQueue # <<>>
  /\ \E h, g \in Handles :
        /\ heap[h].status = "stopped" /\ loop[h].pc = "none"
        /\ heap[g].status = "running"
        /\ heap[g].id # heap[h].id
        /\ \A k \in 1..Len(taskQueue) : taskQueue[k] # heap[h].id

\* the step is a submission that creates the task of identifier i
Creates(i) == Len(heap') = Len(heap) + 1 /\ heap'[Len(heap')].id = i

\* C38: in the queued variant, an identifier that is not in the registry (the
\* sweep has removed its task) comes back into the registry or into the logs
\* map only when a new submission creates a task under it; a loop of the
\* removed task that is still in flight never puts the registry entry or the
\* log back.
C38_RemovedStaysRemoved ==
  [][\A i \in Ids :
        (variant = "queued" /\ tasks[i] = NoTask) =>
           /\ tasks'[i] # NoTask => Creates(i)
           /\ (i \notin logs /\ i \in logs') => Creates(i)]_vars

====
